---- MODULE Spec2Model ----
(***************************************************************************)
(* State-machine model of the ESP32WebSocketControl library                *)
(* (ESP32WebSocketControl.cpp): the variable registry, the WebSocket       *)
(* command dispatcher, the stream controller and the broadcaster.          *)
(*                                                                         *)
(* Conventions                                                             *)
(*  - a C pointer is a sequence of length <= 1: << >> is nullptr and       *)
(*    <<x>> points to x;                                                   *)
(*  - a double or float is held in halves (fixed point with one fractional *)
(*    bit): the number 2.5 is the integer 5;                               *)
(*  - a JSON value is a record [tag, n, s]; n is the integer value (tag    *)
(*    "int"), the value in halves (tag "float") or 0/1 (tag "bool").       *)
(***************************************************************************)
EXTENDS Integers, Sequences, FiniteSets, TLC

\* Number of WebSocket client ids the transport hands out.
MaxClients == 2

\* Width of the significand of the C type float.
FLT_MANT_DIG == 24

VARIABLES
    _variables,              \* pointer to the application's VariableConfig array
    _numVariables,           \* number of entries the application announced
    _onStreamStartCallback,  \* pointer to the bound start callback
    _onStreamStopCallback,   \* pointer to the bound stop callback
    _isStreaming,            \* stream state: FALSE = Idle, TRUE = Streaming
    initCalled,              \* initWiFiWebSocketServer has run
    serverStarted,           \* ws.onEvent + server.begin have been executed
    clients,                 \* ids of the clients ws counts as connected
    lastEvent,               \* the event or API call handled last
    called,                  \* stream callbacks invoked while handling it
    sent,                    \* send primitives invoked while handling it
    ret,                     \* return value of a directly called function
    unmatched,               \* start callback invocations so far minus stop
                             \* callback invocations so far
    startedBy,               \* id of the client whose command started the
                             \* running stream, 0 when the stream is Idle
    _refLevel,               \* Channel: reference level
    _signalState,            \* Channel: FALSE = low, TRUE = high
    _getStampUP,             \* Channel: UP stamp flag
    _getStampDOWN,           \* Channel: DOWN stamp flag
    _up,                     \* Channel: UP mark
    _down                    \* Channel: DOWN mark

vars == <<_variables, _numVariables, _onStreamStartCallback,
          _onStreamStopCallback, _isStreaming, initCalled, serverStarted,
          clients, lastEvent, called, sent, ret, unmatched, startedBy,
          _refLevel, _signalState, _getStampUP, _getStampDOWN, _up, _down>>

\* The fields of the Channel object.
channelVars ==
    <<_refLevel, _signalState, _getStampUP, _getStampDOWN, _up, _down>>

\* The state of the WebSocket control library.
libraryVars ==
    <<_variables, _numVariables, _onStreamStartCallback,
      _onStreamStopCallback, _isStreaming, initCalled, serverStarted,
      clients, called, sent, unmatched, startedBy>>

----------------------------------------------------------------------------
(* Pointers *)

NullPtr == << >>
PtrTo(x) == <<x>>
Deref(p) == p[1]

(* JSON values (ArduinoJson JsonVariant) *)

JV(t, n, s) == [tag |-> t, n |-> n, s |-> s]
JAbsent == JV("absent", 0, "")
JNull == JV("null", 0, "")
JInt(n) == JV("int", n, "")
JFloat(h) == JV("float", h, "")
JStr(s) == JV("str", 0, s)
JBool(b) == JV("bool", IF b THEN 1 ELSE 0, "")

\* jsonDoc.containsKey(key)
ContainsKey(v) == v.tag # "absent"
\* variant.isNull(): a missing member reads as null
IsNull(v) == v.tag \in {"absent", "null"}
\* variant.is<int>(): only a value stored as an integer
IsInt(v) == v.tag = "int"
\* variant.is<float>(): any number
IsFloat(v) == v.tag \in {"int", "float"}
\* variant.is<const char*>()
IsCString(v) == v.tag = "str"
\* const char* p = variant: nullptr unless the variant holds a string
AsCString(v) == IF v.tag = "str" THEN PtrTo(v.s) ELSE NullPtr

Abs(x) == IF x < 0 THEN -x ELSE x

RECURSIVE Pow2(_)
Pow2(k) == IF k = 0 THEN 1 ELSE 2 * Pow2(k - 1)

\* The least magnitude whose significand does not fit a float.
FloatRadix == Pow2(FLT_MANT_DIG)

\* Spacing of the floats around magnitude m: the least power of two q with
\* m < 2^FLT_MANT_DIG * q.
RECURSIVE Ulp(_, _)
Ulp(m, q) == IF m < FloatRadix * q THEN q ELSE Ulp(m, 2 * q)

\* Round the magnitude m to a multiple of q, ties to the even multiple.
RoundHalfEven(m, q) ==
    LET lo == (m \div q) * q
        r  == m - lo
    IN  IF 2 * r < q THEN lo
        ELSE IF 2 * r > q THEN lo + q
        ELSE IF (lo \div q) % 2 = 0 THEN lo ELSE lo + q

\* Conversion of a double (in halves) to float (in halves).
ToFloat(h) ==
    LET m == Abs(h)
        r == RoundHalfEven(m, Ulp(m, 1))
    IN  IF h < 0 THEN -r ELSE r

\* variant.as<int>(): a float is truncated toward zero
AsInt(v) ==
    IF v.tag = "int" THEN v.n
    ELSE IF v.tag = "float"
         THEN (IF v.n < 0 THEN -(Abs(v.n) \div 2) ELSE v.n \div 2)
    ELSE 0

\* variant.as<float>(), in halves
AsFloat(v) ==
    IF v.tag = "int" THEN ToFloat(2 * v.n)
    ELSE IF v.tag = "float" THEN ToFloat(v.n)
    ELSE 0

\* variant.as<String>() of a string value
AsString(v) == IF v.tag = "str" THEN v.s ELSE ""

----------------------------------------------------------------------------
(* The application's variables *)

VarConfig(name, type, i, f, s, hasLimits, minVal, maxVal) ==
    [name |-> name, type |-> type, intValue |-> i, floatValue |-> f,
     stringValue |-> s, hasLimits |-> hasLimits,
     minVal |-> minVal, maxVal |-> maxVal]

\* The array the application registers. Limits and float values are in
\* halves: count has the limits (0, 10) and the value 1, gain the limits
\* (0.0, 10.0) and the value 1.0, freq the limits (8388000.0, 8388610.0) and
\* the value 8388000.0. Of the two Text variables, label has the flag
\* hasLimits set and unit has not.
AppVariables ==
    << VarConfig("count", "TYPE_INT", 1, 0, "", TRUE, 0, 20),
       VarConfig("gain", "TYPE_FLOAT", 0, 2, "", TRUE, 0, 20),
       VarConfig("freq", "TYPE_FLOAT", 0, 16776000, "", TRUE,
                 16776000, 16777220),
       VarConfig("label", "TYPE_STRING", 0, 0, "off", TRUE, 0, 2),
       VarConfig("unit", "TYPE_STRING", 0, 0, "mm", FALSE, 0, 0) >>

----------------------------------------------------------------------------
(* Registry helpers *)

\* _variables[i]
Var(variables, i) == Deref(variables)[i + 1]

\* Store that always writes the first entry of the array.
Store_FirstSlot(variables, i, field, value) ==
    PtrTo([Deref(variables) EXCEPT ![1][field] = value])

\* _variables[i].field = value
Store(variables, i, field, value) ==
    PtrTo([Deref(variables) EXCEPT ![i + 1][field] = value])

\* The for loop of findVariableIndexInternal, from index i on.
RECURSIVE FindFrom(_, _)
FindFrom(name, i) ==
    IF i < _numVariables
    THEN IF Deref(name) = Var(_variables, i).name THEN i
         ELSE FindFrom(name, i + 1)
    ELSE -1

\* findVariableIndexInternal that keeps scanning after a match and returns
\* the last one.
RECURSIVE FindLastFrom(_, _, _)
FindLastFrom(name, i, found) ==
    IF i < _numVariables
    THEN FindLastFrom(name, i + 1,
             IF Deref(name) = Var(_variables, i).name THEN i ELSE found)
    ELSE found

findVariableIndexInternal_LastMatch(name) ==
    IF _variables = NullPtr \/ name = NullPtr THEN -1
    ELSE FindLastFrom(name, 0, -1)

findVariableIndexInternal(name) ==
    IF _variables = NullPtr \/ name = NullPtr THEN -1
    ELSE FindFrom(name, 0)

\* Result of setVariableValueInternal: its return value and the array as it
\* leaves it.
SetResult(r, variables) == [ret |-> r, variables |-> variables]

\* OutsideLimits without the comparison with minVal.
OutsideLimits_MaxOnly(var, newValue) ==
    var.hasLimits /\ newValue > var.maxVal

\* The range validation shared by the TYPE_INT and TYPE_FLOAT cases;
\* newValue is in halves.
OutsideLimits(var, newValue) ==
    var.hasLimits /\ (newValue < var.minVal \/ newValue > var.maxVal)

\* setVariableValueInternal that assigns a numeric member before it
\* validates the range.
setVariableValueInternal_StoreFirst(index, newValueVariant) ==
    IF _variables = NullPtr \/ index < 0 \/ index >= _numVariables
    THEN SetResult(FALSE, _variables)
    ELSE
      LET var == Var(_variables, index) IN
      CASE var.type = "TYPE_INT" ->
             IF ~IsInt(newValueVariant) THEN SetResult(FALSE, _variables)
             ELSE LET newValue == AsInt(newValueVariant) IN
                  SetResult(~OutsideLimits(var, 2 * newValue),
                      Store(_variables, index, "intValue", newValue))
        [] var.type = "TYPE_FLOAT" ->
             IF ~IsFloat(newValueVariant) /\ ~IsInt(newValueVariant)
             THEN SetResult(FALSE, _variables)
             ELSE LET newValue == AsFloat(newValueVariant) IN
                  SetResult(~OutsideLimits(var, newValue),
                      Store(_variables, index, "floatValue", newValue))
        [] var.type = "TYPE_STRING" ->
             IF ~IsCString(newValueVariant) THEN SetResult(FALSE, _variables)
             ELSE SetResult(TRUE,
                      Store(_variables, index, "stringValue",
                            AsString(newValueVariant)))
        [] OTHER -> SetResult(FALSE, _variables)

\* setVariableValueInternal whose TYPE_STRING case refuses a variable that
\* has limits.
setVariableValueInternal_TextLimits(index, newValueVariant) ==
    IF _variables = NullPtr \/ index < 0 \/ index >= _numVariables
    THEN SetResult(FALSE, _variables)
    ELSE
      LET var == Var(_variables, index) IN
      CASE var.type = "TYPE_INT" ->
             IF ~IsInt(newValueVariant) THEN SetResult(FALSE, _variables)
             ELSE LET newValue == AsInt(newValueVariant) IN
                  IF OutsideLimits(var, 2 * newValue)
                  THEN SetResult(FALSE, _variables)
                  ELSE SetResult(TRUE,
                           Store(_variables, index, "intValue", newValue))
        [] var.type = "TYPE_FLOAT" ->
             IF ~IsFloat(newValueVariant) /\ ~IsInt(newValueVariant)
             THEN SetResult(FALSE, _variables)
             ELSE LET newValue == AsFloat(newValueVariant) IN
                  IF OutsideLimits(var, newValue)
                  THEN SetResult(FALSE, _variables)
                  ELSE SetResult(TRUE,
                           Store(_variables, index, "floatValue", newValue))
        [] var.type = "TYPE_STRING" ->
             IF ~IsCString(newValueVariant) \/ var.hasLimits
             THEN SetResult(FALSE, _variables)
             ELSE SetResult(TRUE,
                      Store(_variables, index, "stringValue",
                            AsString(newValueVariant)))
        [] OTHER -> SetResult(FALSE, _variables)

setVariableValueInternal(index, newValueVariant) ==
    IF _variables = NullPtr \/ index < 0 \/ index >= _numVariables
    THEN SetResult(FALSE, _variables)
    ELSE
      LET var == Var(_variables, index) IN
      CASE var.type = "TYPE_INT" ->
             IF ~IsInt(newValueVariant) THEN SetResult(FALSE, _variables)
             ELSE LET newValue == AsInt(newValueVariant) IN
                  IF OutsideLimits(var, 2 * newValue)
                  THEN SetResult(FALSE, _variables)
                  ELSE SetResult(TRUE,
                           Store(_variables, index, "intValue", newValue))
        [] var.type = "TYPE_FLOAT" ->
             IF ~IsFloat(newValueVariant) /\ ~IsInt(newValueVariant)
             THEN SetResult(FALSE, _variables)
             ELSE LET newValue == AsFloat(newValueVariant) IN
                  IF OutsideLimits(var, newValue)
                  THEN SetResult(FALSE, _variables)
                  ELSE SetResult(TRUE,
                           Store(_variables, index, "floatValue", newValue))
        [] var.type = "TYPE_STRING" ->
             IF ~IsCString(newValueVariant) THEN SetResult(FALSE, _variables)
             ELSE SetResult(TRUE,
                      Store(_variables, index, "stringValue",
                            AsString(newValueVariant)))
        [] OTHER -> SetResult(FALSE, _variables)

----------------------------------------------------------------------------
(* Outgoing messages *)

\* A JSON document handed to serializeJson.
Doc(shape, status, message, variable, value, error) ==
    [shape |-> shape, status |-> status, message |-> message,
     variable |-> variable, value |-> value, error |-> error]

\* ValueDoc that reads the member intValue whatever the type.
ValueDoc_IntMember(var) ==
    Doc("value", "", "", var.name, JInt(var.intValue), "")

\* {"variable": var.name, "value": <the member selected by var.type>}
ValueDoc(var) ==
    CASE var.type = "TYPE_INT" ->
           Doc("value", "", "", var.name, JInt(var.intValue), "")
      [] var.type = "TYPE_FLOAT" ->
           Doc("value", "", "", var.name, JFloat(var.floatValue), "")
      [] var.type = "TYPE_STRING" ->
           Doc("value", "", "", var.name, JStr(var.stringValue), "")
      [] OTHER ->
           Doc("value", "", "", var.name, JNull, "Unknown internal type")

\* {"status": status, "message": message}
StatusDoc(status, message) == Doc("status", status, message, "", JNull, "")

\* One invocation of a send primitive of ws: text(id, ..), textAll(..),
\* binaryAll(..); to is 0 for the broadcasts.
Send(api, to, doc) == [api |-> api, to |-> to, doc |-> doc]

\* The sends made by sendVariableValueInternal when the array is variables.
sendVariableValueInternal(variables, clientId, variableIndex) ==
    IF variables = NullPtr \/ variableIndex < 0
       \/ variableIndex >= _numVariables
    THEN << >>
    ELSE << Send("text", clientId, ValueDoc(Var(variables, variableIndex))) >>

sendStatusInternal(clientId, status, message) ==
    << Send("text", clientId, StatusDoc(status, message)) >>

----------------------------------------------------------------------------
(* The command dispatcher: case WS_EVT_DATA of onWebSocketEvent *)

\* What handling one event does: the array, the stream flag, the callbacks
\* invoked and the sends made.
Effects(variables, isStreaming, calls, sends) ==
    [variables |-> variables, isStreaming |-> isStreaming,
     called |-> calls, sent |-> sends]

\* The handler returns after one status reply and changes nothing.
ReplyStatus(clientId, status, message) ==
    Effects(_variables, _isStreaming, << >>,
            sendStatusInternal(clientId, status, message))

\* HandleGetSet that examines the value of a set before it resolves the
\* name.
HandleGetSet_ValueFirst(clientId, action, msg) ==
    LET variableName == AsCString(msg.variable) IN
    IF variableName = NullPtr
    THEN ReplyStatus(clientId, "error",
                     "Missing 'variable' field for get/set action.")
    ELSE IF action = "set" /\ (~ContainsKey(msg.value) \/ IsNull(msg.value))
    THEN ReplyStatus(clientId, "error",
                     "Missing or null 'value' field for set action.")
    ELSE
      LET varIndex == findVariableIndexInternal(variableName) IN
      IF varIndex = -1
      THEN ReplyStatus(clientId, "error", "Variable name not found.")
      ELSE IF action = "get"
      THEN Effects(_variables, _isStreaming, << >>,
                   sendVariableValueInternal(_variables, clientId, varIndex))
      ELSE
        LET r == setVariableValueInternal(varIndex, msg.value) IN
        IF r.ret
        THEN Effects(r.variables, _isStreaming, << >>,
                 sendVariableValueInternal(r.variables, clientId, varIndex))
        ELSE Effects(r.variables, _isStreaming, << >>,
                 sendStatusInternal(clientId, "error",
                     "Failed to set value (invalid type or out of limits)."))

\* HandleGetSet with the broadcast of line 284 enabled: a successful set is
\* also announced to every client.
HandleGetSet_Broadcast(clientId, action, msg) ==
    LET variableName == AsCString(msg.variable) IN
    IF variableName = NullPtr
    THEN ReplyStatus(clientId, "error",
                     "Missing 'variable' field for get/set action.")
    ELSE
      LET varIndex == findVariableIndexInternal(variableName) IN
      IF varIndex = -1
      THEN ReplyStatus(clientId, "error", "Variable name not found.")
      ELSE IF action = "get"
      THEN Effects(_variables, _isStreaming, << >>,
                   sendVariableValueInternal(_variables, clientId, varIndex))
      ELSE IF ~ContainsKey(msg.value) \/ IsNull(msg.value)
      THEN ReplyStatus(clientId, "error",
                       "Missing or null 'value' field for set action.")
      ELSE
        LET r == setVariableValueInternal(varIndex, msg.value) IN
        IF r.ret
        THEN Effects(r.variables, _isStreaming, << >>,
                 sendVariableValueInternal(r.variables, clientId, varIndex)
                 \o << Send("textAll", 0,
                            ValueDoc(Var(r.variables, varIndex))) >>)
        ELSE Effects(r.variables, _isStreaming, << >>,
                 sendStatusInternal(clientId, "error",
                     "Failed to set value (invalid type or out of limits)."))

\* action "get" or "set"
HandleGetSet(clientId, action, msg) ==
    LET variableName == AsCString(msg.variable) IN
    IF variableName = NullPtr
    THEN ReplyStatus(clientId, "error",
                     "Missing 'variable' field for get/set action.")
    ELSE
      LET varIndex == findVariableIndexInternal(variableName) IN
      IF varIndex = -1
      THEN ReplyStatus(clientId, "error", "Variable name not found.")
      ELSE IF action = "get"
      THEN Effects(_variables, _isStreaming, << >>,
                   sendVariableValueInternal(_variables, clientId, varIndex))
      ELSE IF ~ContainsKey(msg.value) \/ IsNull(msg.value)
      THEN ReplyStatus(clientId, "error",
                       "Missing or null 'value' field for set action.")
      ELSE
        LET r == setVariableValueInternal(varIndex, msg.value) IN
        IF r.ret
        THEN Effects(r.variables, _isStreaming, << >>,
                 sendVariableValueInternal(r.variables, clientId, varIndex))
        ELSE Effects(r.variables, _isStreaming, << >>,
                 sendStatusInternal(clientId, "error",
                     "Failed to set value (invalid type or out of limits)."))

\* HandleStartStream without the test of _isStreaming: the callback is
\* invoked on every command.
HandleStartStream_NoStateTest(clientId) ==
    IF _onStreamStartCallback # NullPtr
    THEN Effects(_variables, TRUE, << Deref(_onStreamStartCallback) >>,
                 sendStatusInternal(clientId, "ok", "Stream started."))
    ELSE ReplyStatus(clientId, "error",
                     "Streaming feature not implemented/configured.")

\* HandleStartStream with the test of the callback made only where the
\* callback is invoked: the stream starts with no callback bound.
HandleStartStream_NoCallbackTest(clientId) ==
    IF ~_isStreaming
    THEN Effects(_variables, TRUE,
                 IF _onStreamStartCallback # NullPtr
                 THEN << Deref(_onStreamStartCallback) >> ELSE << >>,
                 sendStatusInternal(clientId, "ok", "Stream started."))
    ELSE ReplyStatus(clientId, "info", "Stream was already active.")

\* action "start_stream"
HandleStartStream(clientId) ==
    IF _onStreamStartCallback # NullPtr
    THEN IF ~_isStreaming
         THEN Effects(_variables, TRUE, << Deref(_onStreamStartCallback) >>,
                      sendStatusInternal(clientId, "ok", "Stream started."))
         ELSE ReplyStatus(clientId, "info", "Stream was already active.")
    ELSE ReplyStatus(clientId, "error",
                     "Streaming feature not implemented/configured.")

\* HandleStopStream without the test of _isStreaming.
HandleStopStream_NoStateTest(clientId) ==
    IF _onStreamStopCallback # NullPtr
    THEN Effects(_variables, FALSE, << Deref(_onStreamStopCallback) >>,
                 sendStatusInternal(clientId, "ok", "Stream stopped."))
    ELSE ReplyStatus(clientId, "error",
                     "Streaming feature not implemented/configured.")

\* HandleStopStream that forgets to clear _isStreaming.
HandleStopStream_FlagKept(clientId) ==
    IF _onStreamStopCallback # NullPtr
    THEN IF _isStreaming
         THEN Effects(_variables, TRUE, << Deref(_onStreamStopCallback) >>,
                      sendStatusInternal(clientId, "ok", "Stream stopped."))
         ELSE ReplyStatus(clientId, "info", "Stream was already stopped.")
    ELSE ReplyStatus(clientId, "error",
                     "Streaming feature not implemented/configured.")

\* HandleStopStream that lets only the client that started the stream stop
\* it.
HandleStopStream_OwnerOnly(clientId) ==
    IF _onStreamStopCallback # NullPtr
    THEN IF _isStreaming
         THEN IF clientId = startedBy
              THEN Effects(_variables, FALSE,
                           << Deref(_onStreamStopCallback) >>,
                           sendStatusInternal(clientId, "ok",
                                              "Stream stopped."))
              ELSE ReplyStatus(clientId, "error",
                               "Stream is owned by another client.")
         ELSE ReplyStatus(clientId, "info", "Stream was already stopped.")
    ELSE ReplyStatus(clientId, "error",
                     "Streaming feature not implemented/configured.")

\* action "stop_stream"
HandleStopStream(clientId) ==
    IF _onStreamStopCallback # NullPtr
    THEN IF _isStreaming
         THEN Effects(_variables, FALSE, << Deref(_onStreamStopCallback) >>,
                      sendStatusInternal(clientId, "ok", "Stream stopped."))
         ELSE ReplyStatus(clientId, "info", "Stream was already stopped.")
    ELSE ReplyStatus(clientId, "error",
                     "Streaming feature not implemented/configured.")

\* The if / else-if chain on the action string.
DispatchAction(clientId, action, msg) ==
    IF action = "get" \/ action = "set"
    THEN HandleGetSet(clientId, action, msg)
    ELSE IF action = "start_stream" THEN HandleStartStream(clientId)
    ELSE IF action = "stop_stream" THEN HandleStopStream(clientId)
    ELSE ReplyStatus(clientId, "error", "Unknown 'action' command.")

\* A complete text frame: deserializeJson, then the action field.
HandleText(clientId, msg) ==
    IF msg.parseError
    THEN ReplyStatus(clientId, "error", "Invalid JSON format received.")
    ELSE
      LET action == AsCString(msg.action) IN
      IF action = NullPtr
      THEN ReplyStatus(clientId, "error", "JSON missing 'action' field.")
      ELSE DispatchAction(clientId, Deref(action), msg)

\* An event that neither sends nor calls nor changes anything.
NoEffects == Effects(_variables, _isStreaming, << >>, << >>)

\* HandleDisconnect without the test of _isStreaming.
HandleDisconnect_NoStateTest(count) ==
    IF count = 0 /\ _onStreamStopCallback # NullPtr
    THEN Effects(_variables, FALSE, << Deref(_onStreamStopCallback) >>, << >>)
    ELSE NoEffects

\* case WS_EVT_DISCONNECT, count being ws.count() when the handler runs
\* HandleDisconnect without the test of ws.count().
HandleDisconnect_NoCountTest(count) ==
    IF _isStreaming /\ _onStreamStopCallback # NullPtr
    THEN Effects(_variables, FALSE, << Deref(_onStreamStopCallback) >>, << >>)
    ELSE NoEffects

\* HandleDisconnect that invokes the stop callback and leaves _isStreaming
\* set.
HandleDisconnect_FlagKept(count) ==
    IF _isStreaming /\ count = 0 /\ _onStreamStopCallback # NullPtr
    THEN Effects(_variables, _isStreaming,
                 << Deref(_onStreamStopCallback) >>, << >>)
    ELSE NoEffects

\* The WS_EVT_DISCONNECT case; count is ws.count() as the handler reads it.
HandleDisconnect(count) ==
    IF _isStreaming /\ count = 0 /\ _onStreamStopCallback # NullPtr
    THEN Effects(_variables, FALSE, << Deref(_onStreamStopCallback) >>, << >>)
    ELSE NoEffects

----------------------------------------------------------------------------
(* Inputs *)

Clients == 1 .. MaxClients

\* A received text frame after deserializeJson: whether parsing failed, and
\* the members "action", "variable" and "value" of the document.
Msg(parseError, action, variable, value) ==
    [parseError |-> parseError, action |-> action,
     variable |-> variable, value |-> value]

NoMsg == Msg(FALSE, JAbsent, JAbsent, JAbsent)

\* Variable names a client may send: the registered ones and one other.
Names == {"count", "gain", "freq", "label", "unit", "missing"}

VariableFields == {JAbsent} \cup {JStr(n) : n \in Names}

\* Values a client may send with "set": no member, null, a string, the
\* integers -1, 2 and 11, and the floats 2.0, 2.5, 15.0, 8388609.0 and
\* 8388610.5 (the last one is not representable as a float).
ValueFields ==
    {JAbsent, JNull, JStr("on"),
     JInt(-1), JInt(2), JInt(11),
     JFloat(4), JFloat(5), JFloat(30), JFloat(16777218), JFloat(16777221)}

\* The messages without a usable action.
BadMessages ==
    {Msg(TRUE, JAbsent, JAbsent, JAbsent), NoMsg,
     Msg(FALSE, JInt(1), JAbsent, JAbsent)}

\* The messages of the stream controller's clients.
ControlMessages ==
    BadMessages
    \cup {Msg(FALSE, JStr("get"), v, JAbsent) :
             v \in {JAbsent, JStr("gain"), JStr("missing")}}
    \cup {Msg(FALSE, JStr("set"), JStr("gain"), x) :
             x \in {JAbsent, JFloat(5), JFloat(30)}}
    \cup {Msg(FALSE, JStr(a), JAbsent, JAbsent) :
             a \in {"start_stream", "stop_stream", "get_all_vars_config",
                    "reboot"}}

\* The messages of the registry's clients.
Messages ==
    BadMessages
    \cup {Msg(FALSE, JStr("get"), v, JAbsent) : v \in VariableFields}
    \cup {Msg(FALSE, JStr("set"), v, x) :
             v \in VariableFields, x \in ValueFields}
    \cup {Msg(FALSE, JStr(a), JAbsent, JAbsent) :
             a \in {"start_stream", "stop_stream", "get_all_vars_config",
                    "reboot"}}

\* What lastEvent records.
Event(type, client, frame, msg, name, len) ==
    [type |-> type, client |-> client, frame |-> frame, msg |-> msg,
     name |-> name, len |-> len]

NoEvent == Event("none", 0, "none", NoMsg, NullPtr, 0)

----------------------------------------------------------------------------
(* Actions *)

\* Largest magnitude of unmatched that is followed.
MaxUnmatched == 2

\* Number of invocations of callback in the sequence calls.
Invocations(calls, callback) ==
    Cardinality({k \in 1 .. Len(calls) : calls[k] = callback})

\* The client that started the stream that runs after client c's event had
\* the effects e.
Starter(e, c) ==
    IF ~e.isStreaming THEN 0
    ELSE IF ~_isStreaming THEN c
    ELSE startedBy

Apply(e, c) ==
    /\ _variables' = e.variables
    /\ _isStreaming' = e.isStreaming
    /\ called' = e.called
    /\ sent' = e.sent
    /\ unmatched' = unmatched + Invocations(e.called, "onStreamStart")
                              - Invocations(e.called, "onStreamStop")
    /\ unmatched' \in -MaxUnmatched .. MaxUnmatched
    /\ startedBy' = Starter(e, c)

\* initWiFiWebSocketServer(ssid, password, appVariables, appNumVariables, ..)
\* with WiFi.softAP returning apStarted.
\* InitWiFiWebSocketServer without the validation of the array and the
\* count.
InitWiFiWebSocketServer_NoValidation(appVariables, appNumVariables, apStarted) ==
    /\ ~initCalled
    /\ initCalled' = TRUE
    /\ _variables' = appVariables
    /\ _numVariables' = appNumVariables
    /\ serverStarted' = apStarted
    /\ lastEvent' = Event("init", 0, "none", NoMsg, NullPtr, appNumVariables)
    /\ called' = << >>
    /\ sent' = << >>
    /\ UNCHANGED channelVars
    /\ UNCHANGED <<_onStreamStartCallback, _onStreamStopCallback,
                   _isStreaming, clients, ret, unmatched, startedBy>>

InitWiFiWebSocketServer(appVariables, appNumVariables, apStarted) ==
    /\ ~initCalled
    /\ initCalled' = TRUE
    /\ _variables' = appVariables
    /\ _numVariables' = appNumVariables
    /\ serverStarted' =
          IF appVariables = NullPtr \/ appNumVariables <= 0 THEN FALSE
          ELSE apStarted
    /\ lastEvent' = Event("init", 0, "none", NoMsg, NullPtr, appNumVariables)
    /\ called' = << >>
    /\ sent' = << >>
    /\ UNCHANGED channelVars
    /\ UNCHANGED <<_onStreamStartCallback, _onStreamStopCallback,
                   _isStreaming, clients, ret, unmatched, startedBy>>

\* setStreamCallbacks(onStart, onStop)
SetStreamCallbacks(onStart, onStop) ==
    /\ _onStreamStartCallback' = onStart
    /\ _onStreamStopCallback' = onStop
    /\ lastEvent' = Event("setStreamCallbacks", 0, "none", NoMsg, NullPtr, 0)
    /\ called' = << >>
    /\ sent' = << >>
    /\ UNCHANGED channelVars
    /\ UNCHANGED <<_variables, _numVariables, _isStreaming, initCalled,
                   serverStarted, clients, ret, unmatched, startedBy>>

\* onWebSocketEvent(.., client, WS_EVT_CONNECT, ..)
WsEvtConnect(c) ==
    /\ serverStarted
    /\ c \notin clients
    /\ clients' = clients \cup {c}
    /\ Apply(NoEffects, c)
    /\ lastEvent' = Event("WS_EVT_CONNECT", c, "none", NoMsg, NullPtr, 0)
    /\ UNCHANGED channelVars
    /\ UNCHANGED <<_numVariables, _onStreamStartCallback,
                   _onStreamStopCallback, initCalled, serverStarted, ret>>

\* onWebSocketEvent(.., client, WS_EVT_DISCONNECT, ..): ws has dropped the
\* client from its list when the handler runs.
WsEvtDisconnect(c) ==
    /\ serverStarted
    /\ c \in clients
    /\ clients' = clients \ {c}
    /\ Apply(HandleDisconnect(Cardinality(clients \ {c})), c)
    /\ lastEvent' = Event("WS_EVT_DISCONNECT", c, "none", NoMsg, NullPtr, 0)
    /\ UNCHANGED channelVars
    /\ UNCHANGED <<_numVariables, _onStreamStartCallback,
                   _onStreamStopCallback, initCalled, serverStarted, ret>>

\* onWebSocketEvent(.., client, WS_EVT_DATA, ..): frame is "text" for a
\* complete single-frame text message, "fragment" for a text frame that is
\* not, "binary" for a binary frame.
WsEvtData(c, frame, msg) ==
    /\ serverStarted
    /\ c \in clients
    /\ Apply(IF frame = "text" THEN HandleText(c, msg) ELSE NoEffects, c)
    /\ lastEvent' = Event("WS_EVT_DATA", c, frame, msg, NullPtr, 0)
    /\ UNCHANGED channelVars
    /\ UNCHANGED <<_numVariables, _onStreamStartCallback,
                   _onStreamStopCallback, initCalled, serverStarted,
                   clients, ret>>

\* onWebSocketEvent(.., client, WS_EVT_PONG or WS_EVT_ERROR, ..)
WsEvtOther(c, type) ==
    /\ serverStarted
    /\ c \in clients
    /\ Apply(NoEffects, c)
    /\ lastEvent' = Event(type, c, "none", NoMsg, NullPtr, 0)
    /\ UNCHANGED channelVars
    /\ UNCHANGED <<_numVariables, _onStreamStartCallback,
                   _onStreamStopCallback, initCalled, serverStarted,
                   clients, ret>>

\* BroadcastVariableSends without the early return on ws.count() == 0.
BroadcastVariableSends_NoCountTest(variableName) ==
    LET index == findVariableIndexInternal(variableName) IN
    IF index < 0 THEN << >>
    ELSE IF Var(_variables, index).type
              \notin {"TYPE_INT", "TYPE_FLOAT", "TYPE_STRING"}
    THEN << >>
    ELSE << Send("textAll", 0, ValueDoc(Var(_variables, index))) >>

\* The sends of broadcastVariableUpdate(variableName).
BroadcastVariableSends(variableName) ==
    IF Cardinality(clients) = 0 THEN << >>
    ELSE
      LET index == findVariableIndexInternal(variableName) IN
      IF index < 0 THEN << >>
      ELSE IF Var(_variables, index).type
                \notin {"TYPE_INT", "TYPE_FLOAT", "TYPE_STRING"}
      THEN << >>
      ELSE << Send("textAll", 0, ValueDoc(Var(_variables, index))) >>

BroadcastVariableUpdate(variableName) ==
    /\ sent' = BroadcastVariableSends(variableName)
    /\ called' = << >>
    /\ lastEvent' = Event("broadcastVariableUpdate", 0, "none", NoMsg,
                          variableName, 0)
    /\ UNCHANGED channelVars
    /\ UNCHANGED <<_variables, _numVariables, _onStreamStartCallback,
                   _onStreamStopCallback, _isStreaming, initCalled,
                   serverStarted, clients, ret, unmatched, startedBy>>

\* BroadcastBinarySends without the tests of data and len.
BroadcastBinarySends_NoPayloadTest(data, len) ==
    IF Cardinality(clients) > 0
    THEN << Send("binaryAll", 0, Doc("binary", "", "", "", JInt(len), "")) >>
    ELSE << >>

\* The sends of broadcastBinaryData(data, len); data is a pointer.
BroadcastBinarySends(data, len) ==
    IF Cardinality(clients) > 0 /\ data # NullPtr /\ len > 0
    THEN << Send("binaryAll", 0, Doc("binary", "", "", "", JInt(len), "")) >>
    ELSE << >>

BroadcastBinaryData(data, len) ==
    /\ sent' = BroadcastBinarySends(data, len)
    /\ called' = << >>
    /\ lastEvent' = Event("broadcastBinaryData", 0, "none", NoMsg, data, len)
    /\ UNCHANGED channelVars
    /\ UNCHANGED <<_variables, _numVariables, _onStreamStartCallback,
                   _onStreamStopCallback, _isStreaming, initCalled,
                   serverStarted, clients, ret, unmatched, startedBy>>

\* cleanupWebSocketClients(): ws.cleanupClients() closes nothing while the
\* number of clients is within the limit of the transport.
CleanupWebSocketClients ==
    /\ lastEvent' = Event("cleanupWebSocketClients", 0, "none", NoMsg,
                          NullPtr, 0)
    /\ called' = << >>
    /\ sent' = << >>
    /\ UNCHANGED channelVars
    /\ UNCHANGED <<_variables, _numVariables, _onStreamStartCallback,
                   _onStreamStopCallback, _isStreaming, initCalled,
                   serverStarted, clients, ret, unmatched, startedBy>>

----------------------------------------------------------------------------
(* The photogate channel *)

\* Reference level of a new Channel.
REF_LEVEL == 3500

\* Largest sample of the 12-bit ADC.
ADC_MAX == 4095

\* read > _refLevel and read < _refLevel, where read is an unsigned int and
\* _refLevel an int: _refLevel is converted to unsigned int, so that a
\* negative level becomes a value above every sample.
AboveLevel(read, level) == IF level < 0 THEN FALSE ELSE read > level

BelowLevel(read, level) == IF level < 0 THEN TRUE ELSE read < level

\* Channel::Channel(index, pin)
ChannelConstructed ==
    /\ _refLevel = REF_LEVEL
    /\ _up = TRUE
    /\ _down = TRUE
    /\ _getStampUP = FALSE
    /\ _getStampDOWN = FALSE
    /\ _signalState = FALSE

\* The values analogRead returns.
Samples == {0, REF_LEVEL - 1, REF_LEVEL, REF_LEVEL + 1, ADC_MAX}

\* The reference levels the application sets, within the range of the ADC.
ReferenceLevels == {0, REF_LEVEL, ADC_MAX}

\* Channel::Read that does not test _signalState before it stamps.
ChannelRead_LevelTriggered(read) ==
    LET rising == AboveLevel(read, _refLevel) /\ _up
        falling == BelowLevel(read, _refLevel) /\ _down
    IN  /\ _signalState' = IF falling THEN FALSE
                           ELSE IF rising THEN TRUE ELSE _signalState
        /\ _getStampUP' = (_getStampUP \/ rising)
        /\ _getStampDOWN' = (_getStampDOWN \/ falling)
        /\ ret' = read
        /\ lastEvent' = Event("Channel::Read", 0, "none", NoMsg, NullPtr, read)
        /\ UNCHANGED <<_refLevel, _up, _down>>
        /\ UNCHANGED libraryVars

\* Channel::Read() with analogRead(_pin) returning read: the two if
\* statements in sequence, the second reading the _signalState the first
\* has left.
ChannelRead(read) ==
    LET rising == AboveLevel(read, _refLevel) /\ ~_signalState /\ _up
        signalStateAfterFirst == IF rising THEN TRUE ELSE _signalState
        falling == BelowLevel(read, _refLevel) /\ signalStateAfterFirst
                      /\ _down
    IN  /\ _signalState' = IF falling THEN FALSE ELSE signalStateAfterFirst
        /\ _getStampUP' = (_getStampUP \/ rising)
        /\ _getStampDOWN' = (_getStampDOWN \/ falling)
        /\ ret' = read
        /\ lastEvent' = Event("Channel::Read", 0, "none", NoMsg, NullPtr, read)
        /\ UNCHANGED <<_refLevel, _up, _down>>
        /\ UNCHANGED libraryVars

\* Channel::SetReferenceLevel(referenceLevel)
SetReferenceLevel(referenceLevel) ==
    /\ _refLevel' = referenceLevel
    /\ lastEvent' = Event("Channel::SetReferenceLevel", 0, "none", NoMsg,
                          NullPtr, referenceLevel)
    /\ UNCHANGED <<_signalState, _getStampUP, _getStampDOWN, _up, _down, ret>>
    /\ UNCHANGED libraryVars

\* Channel::SetMarkUP()
SetMarkUP ==
    /\ _up' = ~_up
    /\ lastEvent' = Event("Channel::SetMarkUP", 0, "none", NoMsg, NullPtr, 0)
    /\ UNCHANGED <<_refLevel, _signalState, _getStampUP, _getStampDOWN,
                   _down, ret>>
    /\ UNCHANGED libraryVars

\* Channel::SetMarkDown()
SetMarkDown ==
    /\ _down' = ~_down
    /\ lastEvent' = Event("Channel::SetMarkDown", 0, "none", NoMsg, NullPtr, 0)
    /\ UNCHANGED <<_refLevel, _signalState, _getStampUP, _getStampDOWN,
                   _up, ret>>
    /\ UNCHANGED libraryVars

\* Channel::SetStampUP(value)
SetStampUP(value) ==
    /\ _getStampUP' = value
    /\ lastEvent' = Event("Channel::SetStampUP", 0, "none", NoMsg, NullPtr, 0)
    /\ UNCHANGED <<_refLevel, _signalState, _getStampDOWN, _up, _down, ret>>
    /\ UNCHANGED libraryVars

\* Channel::SetStampDOWN(value)
SetStampDOWN(value) ==
    /\ _getStampDOWN' = value
    /\ lastEvent' = Event("Channel::SetStampDOWN", 0, "none", NoMsg, NullPtr,
                          0)
    /\ UNCHANGED <<_refLevel, _signalState, _getStampUP, _up, _down, ret>>
    /\ UNCHANGED libraryVars

----------------------------------------------------------------------------
(* The specification *)

Init ==
    /\ _variables = NullPtr
    /\ _numVariables = 0
    /\ _onStreamStartCallback = NullPtr
    /\ _onStreamStopCallback = NullPtr
    /\ _isStreaming = FALSE
    /\ initCalled = FALSE
    /\ serverStarted = FALSE
    /\ clients = {}
    /\ lastEvent = NoEvent
    /\ called = << >>
    /\ sent = << >>
    /\ ret = -1
    /\ unmatched = 0
    /\ startedBy = 0
    /\ ChannelConstructed

\* The arguments the application may pass to initWiFiWebSocketServer.
InitArguments ==
    {<<NullPtr, 5>>, <<PtrTo(AppVariables), 0>>, <<PtrTo(AppVariables), -1>>,
     <<PtrTo(AppVariables), 2>>, <<PtrTo(AppVariables), 5>>}

Next ==
    \/ \E a \in InitArguments, apStarted \in BOOLEAN :
          InitWiFiWebSocketServer(a[1], a[2], apStarted)
    \/ \E onStart \in {NullPtr, PtrTo("onStreamStart")},
          onStop \in {NullPtr, PtrTo("onStreamStop")} :
          SetStreamCallbacks(onStart, onStop)
    \/ \E c \in Clients : WsEvtConnect(c)
    \/ \E c \in Clients : WsEvtDisconnect(c)
    \/ \E c \in Clients, m \in ControlMessages : WsEvtData(c, "text", m)
    \/ \E c \in Clients, f \in {"fragment", "binary"} : WsEvtData(c, f, NoMsg)
    \/ \E c \in Clients, t \in {"WS_EVT_PONG", "WS_EVT_ERROR"} :
          WsEvtOther(c, t)
    \/ \E n \in {NullPtr} \cup {PtrTo(x) : x \in {"gain", "label", "missing"}} :
          BroadcastVariableUpdate(n)
    \/ \E d \in {NullPtr, PtrTo("payload")}, len \in {0, 3} :
          BroadcastBinaryData(d, len)
    \/ CleanupWebSocketClients

Spec == Init /\ [][Next]_vars

\* Longest array handed to findVariableIndexInternal in SpecFind.
MaxVars == 3

\* Names of the arrays and of the lookups of SpecFind.
FindNames == {"gain", "Gain", "mode"}

\* The arrays of at most MaxVars variables named in FindNames, duplicates
\* included.
FindArrays ==
    UNION { { [i \in 1 .. k |->
                 VarConfig(f[i], "TYPE_INT", 0, 0, "", FALSE, 0, 0)] :
              f \in [1 .. k -> FindNames] } : k \in 0 .. MaxVars }

\* The registry is any array of FindArrays with any count it can hold, or
\* uninitialized.
InitFind ==
    /\ _variables \in {NullPtr} \cup {PtrTo(a) : a \in FindArrays}
    /\ _numVariables \in 0 .. MaxVars
    /\ _variables # NullPtr => _numVariables <= Len(Deref(_variables))
    /\ _onStreamStartCallback = NullPtr
    /\ _onStreamStopCallback = NullPtr
    /\ _isStreaming = FALSE
    /\ initCalled = TRUE
    /\ serverStarted = FALSE
    /\ clients = {}
    /\ lastEvent = NoEvent
    /\ called = << >>
    /\ sent = << >>
    /\ ret = -1
    /\ unmatched = 0
    /\ startedBy = 0
    /\ ChannelConstructed

\* A call of findVariableIndexInternal(name).
CallFind(name) ==
    /\ ret' = findVariableIndexInternal(name)
    /\ lastEvent' = Event("findVariableIndexInternal", 0, "none", NoMsg,
                          name, 0)
    /\ UNCHANGED channelVars
    /\ UNCHANGED <<_variables, _numVariables, _onStreamStartCallback,
                   _onStreamStopCallback, _isStreaming, initCalled,
                   serverStarted, clients, called, sent, unmatched,
                   startedBy>>

NextFind == \E n \in {NullPtr} \cup {PtrTo(x) : x \in FindNames} : CallFind(n)

SpecFind == InitFind /\ [][NextFind]_vars

\* A Channel as constructed; the library is not in use.
InitChannel ==
    /\ ChannelConstructed
    /\ _variables = NullPtr
    /\ _numVariables = 0
    /\ _onStreamStartCallback = NullPtr
    /\ _onStreamStopCallback = NullPtr
    /\ _isStreaming = FALSE
    /\ initCalled = FALSE
    /\ serverStarted = FALSE
    /\ clients = {}
    /\ lastEvent = NoEvent
    /\ called = << >>
    /\ sent = << >>
    /\ ret = -1
    /\ unmatched = 0
    /\ startedBy = 0

NextChannel ==
    \/ \E read \in Samples : ChannelRead(read)
    \/ \E referenceLevel \in ReferenceLevels :
          SetReferenceLevel(referenceLevel)
    \/ SetMarkUP
    \/ SetMarkDown
    \/ \E value \in BOOLEAN : SetStampUP(value)
    \/ \E value \in BOOLEAN : SetStampDOWN(value)

SpecChannel == InitChannel /\ [][NextChannel]_vars

\* The same program with one client that sends every message of Messages.
NextRegistry ==
    \/ \E a \in InitArguments, apStarted \in BOOLEAN :
          InitWiFiWebSocketServer(a[1], a[2], apStarted)
    \/ \E cb \in {<<NullPtr, NullPtr>>,
                  <<PtrTo("onStreamStart"), PtrTo("onStreamStop")>>} :
          SetStreamCallbacks(cb[1], cb[2])
    \/ WsEvtConnect(1)
    \/ WsEvtDisconnect(1)
    \/ \E m \in Messages : WsEvtData(1, "text", m)
    \/ \E f \in {"fragment", "binary"} : WsEvtData(1, f, NoMsg)
    \/ \E t \in {"WS_EVT_PONG", "WS_EVT_ERROR"} : WsEvtOther(1, t)
    \/ \E n \in {NullPtr} \cup {PtrTo(x) : x \in Names} :
          BroadcastVariableUpdate(n)
    \/ \E d \in {NullPtr, PtrTo("payload")}, len \in {0, 3} :
          BroadcastBinaryData(d, len)
    \/ CleanupWebSocketClients

SpecRegistry == Init /\ [][NextRegistry]_vars

----------------------------------------------------------------------------
(* Vocabulary of the properties *)

\* e is a complete text message whose action is the string a.
IsCommand(e, a) ==
    /\ e.type = "WS_EVT_DATA"
    /\ e.frame = "text"
    /\ ~e.msg.parseError
    /\ e.msg.action = JStr(a)

\* The sends s are exactly one status reply with the given status, addressed
\* to client c.
RepliedStatus(s, c, status) ==
    /\ Len(s) = 1
    /\ s[1].api = "text"
    /\ s[1].to = c
    /\ s[1].doc.shape = "status"
    /\ s[1].doc.status = status

----------------------------------------------------------------------------
(* Stream controller *)

\* C1: a start_stream command handled with a start callback bound moves an
\* Idle stream to Streaming, invokes the start callback exactly once and is
\* answered "ok"; handled while Streaming it is answered "info", invokes no
\* callback and leaves the stream Streaming.
C1_StartThenStartAgain ==
    [][ (IsCommand(lastEvent', "start_stream")
         /\ _onStreamStartCallback # NullPtr)
        => IF ~_isStreaming
           THEN /\ _isStreaming'
                /\ called' = << Deref(_onStreamStartCallback) >>
                /\ RepliedStatus(sent', lastEvent'.client, "ok")
           ELSE /\ _isStreaming'
                /\ called' = << >>
                /\ RepliedStatus(sent', lastEvent'.client, "info") ]_vars

\* A second start_stream has been answered "info" while Streaming.
C1_Witness ==
    /\ IsCommand(lastEvent, "start_stream")
    /\ _onStreamStartCallback # NullPtr
    /\ _isStreaming
    /\ called = << >>
    /\ RepliedStatus(sent, lastEvent.client, "info")

\* C2: a start_stream command handled with no start callback bound is
\* answered "error", invokes no callback and leaves the stream state as it
\* was.
C2_StartUnsupported ==
    [][ (IsCommand(lastEvent', "start_stream")
         /\ _onStreamStartCallback = NullPtr)
        => /\ RepliedStatus(sent', lastEvent'.client, "error")
           /\ called' = << >>
           /\ _isStreaming' = _isStreaming ]_vars

\* start_stream has been refused for want of a start callback.
C2_Witness ==
    /\ IsCommand(lastEvent, "start_stream")
    /\ _onStreamStartCallback = NullPtr
    /\ ~_isStreaming
    /\ called = << >>
    /\ RepliedStatus(sent, lastEvent.client, "error")

\* C3: a disconnect handled with no client left connected does nothing when
\* the stream is Idle; when the stream is Streaming and a stop callback is
\* bound, the stream becomes Idle and the stop callback is invoked exactly
\* once.
C3_LastClientDisconnected ==
    [][ (lastEvent'.type = "WS_EVT_DISCONNECT" /\ clients' = {})
        => /\ ~_isStreaming
              => /\ ~_isStreaming'
                 /\ called' = << >>
                 /\ sent' = << >>
                 /\ _variables' = _variables
           /\ (_isStreaming /\ _onStreamStopCallback # NullPtr)
              => /\ ~_isStreaming'
                 /\ called' = << Deref(_onStreamStopCallback) >> ]_vars

\* The last client has disconnected and the stream was stopped for it.
C3_Witness ==
    /\ lastEvent.type = "WS_EVT_DISCONNECT"
    /\ clients = {}
    /\ ~_isStreaming
    /\ called = << "onStreamStop" >>

\* C4, as claimed: start_stream while Streaming and stop_stream while Idle
\* invoke no callback, leave the stream state unchanged and are answered
\* with the status "info".
C4_Original ==
    [][ ((IsCommand(lastEvent', "start_stream") /\ _isStreaming)
         \/ (IsCommand(lastEvent', "stop_stream") /\ ~_isStreaming))
        => /\ called' = << >>
           /\ _isStreaming' = _isStreaming
           /\ RepliedStatus(sent', lastEvent'.client, "info") ]_vars

\* The callback a stream command needs: the start callback for start_stream,
\* the stop callback for stop_stream.
CallbackOf(e) ==
    IF IsCommand(e, "start_stream") THEN _onStreamStartCallback
    ELSE _onStreamStopCallback

\* C4, amended: start_stream while Streaming and stop_stream while Idle
\* invoke no callback and leave the stream state unchanged; the answer has
\* the status "info" when the callback of the command is bound and the
\* status "error" when it is not.
C4_RedundantCommandIsNoOp ==
    [][ ((IsCommand(lastEvent', "start_stream") /\ _isStreaming)
         \/ (IsCommand(lastEvent', "stop_stream") /\ ~_isStreaming))
        => /\ called' = << >>
           /\ _isStreaming' = _isStreaming
           /\ _variables' = _variables
           /\ RepliedStatus(sent', lastEvent'.client,
                  IF CallbackOf(lastEvent') # NullPtr THEN "info"
                  ELSE "error") ]_vars

\* stop_stream has been answered "info" on an Idle stream.
C4_Witness ==
    /\ IsCommand(lastEvent, "stop_stream")
    /\ ~_isStreaming
    /\ called = << >>
    /\ RepliedStatus(sent, lastEvent.client, "info")

\* C5: a stop_stream command handled while Streaming with a stop callback
\* bound moves the stream to Idle, invokes the stop callback exactly once
\* and is answered "ok"; handled with no stop callback bound it is answered
\* "error", invokes no callback and leaves the stream state unchanged.
C5_StopStream ==
    [][ IsCommand(lastEvent', "stop_stream")
        => /\ (_isStreaming /\ _onStreamStopCallback # NullPtr)
              => /\ ~_isStreaming'
                 /\ called' = << Deref(_onStreamStopCallback) >>
                 /\ RepliedStatus(sent', lastEvent'.client, "ok")
           /\ _onStreamStopCallback = NullPtr
              => /\ RepliedStatus(sent', lastEvent'.client, "error")
                 /\ called' = << >>
                 /\ _isStreaming' = _isStreaming ]_vars

\* stop_stream has stopped the stream.
C5_Witness ==
    /\ IsCommand(lastEvent, "stop_stream")
    /\ ~_isStreaming
    /\ called = << "onStreamStop" >>
    /\ RepliedStatus(sent, lastEvent.client, "ok")

----------------------------------------------------------------------------
(* Variable registry *)

\* The set command e gets as far as calling setVariableValueInternal: its
\* variable resolves and its value is present and not null.
SetCall(e) ==
    /\ IsCommand(e, "set")
    /\ findVariableIndexInternal(AsCString(e.msg.variable)) # -1
    /\ ContainsKey(e.msg.value)
    /\ ~IsNull(e.msg.value)

\* The index the variable of command e resolves to.
Target(e) == findVariableIndexInternal(AsCString(e.msg.variable))

\* The sends s are exactly one {variable, value} reply addressed to client c.
RepliedValue(s, c) ==
    /\ Len(s) = 1
    /\ s[1].api = "text"
    /\ s[1].to = c
    /\ s[1].doc.shape = "value"

IsNumeric(v) == v.tag \in {"int", "float"}

\* The number a numeric candidate denotes, in halves.
Halves(v) == IF v.tag = "int" THEN 2 * v.n ELSE v.n

\* An integral numeric, or a float with no fractional part.
RepresentableAsInteger(v) ==
    v.tag = "int" \/ (v.tag = "float" /\ v.n % 2 = 0)

WithinLimits(var, v) ==
    IsNumeric(v) /\ var.minVal <= Halves(v) /\ Halves(v) <= var.maxVal

C7_FloatSet ==
    [][ (SetCall(lastEvent')
         /\ Var(_variables, Target(lastEvent')).type = "TYPE_FLOAT")
        => LET t   == Target(lastEvent')
               var == Var(_variables, t)
               v   == lastEvent'.msg.value
               c   == lastEvent'.client
           IN  /\ (IsNumeric(v) /\ (~var.hasLimits \/ WithinLimits(var, v)))
                  => /\ RepliedValue(sent', c)
                     /\ sent'[1].doc.variable = var.name
                     /\ sent'[1].doc.value = JFloat(Halves(v))
                     /\ Var(_variables', t).floatValue = Halves(v)
               /\ (IsNumeric(v) /\ var.hasLimits /\ ~WithinLimits(var, v))
                  => /\ RepliedStatus(sent', c, "error")
                     /\ _variables' = _variables
               /\ v.tag = "str"
                  => /\ RepliedStatus(sent', c, "error")
                     /\ _variables' = _variables ]_vars

\* What a successful set of a variable of the given type writes for the
\* candidate v, as a JSON value.
Written(type, v) ==
    CASE type = "TYPE_INT" -> JInt(AsInt(v))
      [] type = "TYPE_FLOAT" -> JFloat(AsFloat(v))
      [] OTHER -> JStr(AsString(v))

\* C8: a get handled immediately after a successful set of the same variable
\* is answered with the value the set has written, and the reply of the set
\* carries that same value.
C8_ReadAfterWrite ==
    [][ (/\ SetCall(lastEvent)
         /\ RepliedValue(sent, lastEvent.client)
         /\ IsCommand(lastEvent', "get")
         /\ lastEvent'.msg.variable = lastEvent.msg.variable)
        => LET var == Var(_variables, Target(lastEvent))
               w   == Written(var.type, lastEvent.msg.value)
           IN  /\ sent[1].doc.variable = var.name
               /\ sent[1].doc.value = w
               /\ RepliedValue(sent', lastEvent'.client)
               /\ sent'[1].doc.variable = var.name
               /\ sent'[1].doc.value = w
               /\ _variables' = _variables ]_vars

\* A get of gain has been answered 2.5, which only a set can have written.
C8_Witness ==
    /\ IsCommand(lastEvent, "get")
    /\ lastEvent.msg.variable = JStr("gain")
    /\ RepliedValue(sent, lastEvent.client)
    /\ sent[1].doc.value = JFloat(5)
    /\ Var(_variables, 1).floatValue = 5

\* The "variables" array of a reply document; the documents without that
\* member have none.
ConfigList(doc) ==
    IF "variables" \in DOMAIN doc THEN doc.variables ELSE << >>

\* C9: a get_all_vars_config command is answered to its sender with the
\* status var_config_list and an array of one entry per registered variable,
\* in registration order.
C9_GetAllVarsConfig ==
    [][ IsCommand(lastEvent', "get_all_vars_config")
        => /\ Len(sent') = 1
           /\ sent'[1].api = "text"
           /\ sent'[1].to = lastEvent'.client
           /\ sent'[1].doc.status = "var_config_list"
           /\ Len(ConfigList(sent'[1].doc)) = _numVariables
           /\ \A i \in 1 .. _numVariables :
                 ConfigList(sent'[1].doc)[i].name
                    = Var(_variables, i - 1).name ]_vars

\* The indices, in registration order, whose name equals the string name
\* points to.
Matches(name) ==
    { i \in 0 .. _numVariables - 1 : Var(_variables, i).name = Deref(name) }

\* C10: findVariableIndexInternal(name) returns the least index whose name
\* equals name exactly, and -1 when there is none, when name is null or when
\* the registry is uninitialized.
C10_Find ==
    lastEvent.type = "findVariableIndexInternal"
    => IF _variables = NullPtr \/ lastEvent.name = NullPtr
          \/ Matches(lastEvent.name) = {}
       THEN ret = -1
       ELSE /\ ret \in Matches(lastEvent.name)
            /\ \A i \in Matches(lastEvent.name) : ret <= i

\* A lookup has returned the first of two variables of the same name, in a
\* registry that also holds the name in another case.
C10_Witness ==
    /\ lastEvent.type = "findVariableIndexInternal"
    /\ _variables # NullPtr
    /\ lastEvent.name = PtrTo("gain")
    /\ ret = 1
    /\ Cardinality(Matches(lastEvent.name)) = 2
    /\ Var(_variables, 0).name = "Gain"

----------------------------------------------------------------------------
(* Command dispatcher *)

\* The sends s are exactly one error reply to client c with the given
\* message.
RepliedError(s, c, message) ==
    /\ RepliedStatus(s, c, "error")
    /\ s[1].doc.message = message

\* Some registered variable has the name the command e gives.
Resolves(e) ==
    /\ _variables # NullPtr
    /\ e.msg.variable.tag = "str"
    /\ \E i \in 0 .. _numVariables - 1 :
          Var(_variables, i).name = e.msg.variable.s

\* C11: for get and set the first failing check decides the single error
\* reply: a missing variable field is reported before the name is resolved,
\* an unresolved name before the value of a set is examined (whatever that
\* value is), and a missing or null value before type and range validation.
C11_CheckOrder ==
    [][ (IsCommand(lastEvent', "get") \/ IsCommand(lastEvent', "set"))
        => LET e == lastEvent'
               c == lastEvent'.client
           IN  IF e.msg.variable.tag # "str"
               THEN RepliedError(sent', c,
                        "Missing 'variable' field for get/set action.")
               ELSE IF ~Resolves(e)
               THEN RepliedError(sent', c, "Variable name not found.")
               ELSE IF IsCommand(e, "get")
               THEN RepliedValue(sent', c)
               ELSE IF e.msg.value.tag \in {"absent", "null"}
               THEN RepliedError(sent', c,
                        "Missing or null 'value' field for set action.")
               ELSE \/ RepliedValue(sent', c)
                    \/ RepliedError(sent', c,
                        "Failed to set value (invalid type or out of limits).")
      ]_vars

\* A set that names an unknown variable and carries no value has been
\* answered "Variable name not found.".
C11_Witness ==
    /\ IsCommand(lastEvent, "set")
    /\ lastEvent.msg.variable = JStr("missing")
    /\ lastEvent.msg.value = JAbsent
    /\ RepliedError(sent, lastEvent.client, "Variable name not found.")

\* The step handles a complete text message and answers it with an error
\* reply.
ErrorOutcome ==
    /\ lastEvent'.type = "WS_EVT_DATA"
    /\ lastEvent'.frame = "text"
    /\ RepliedStatus(sent', lastEvent'.client, "error")

\* Commands that may follow an erroneous message: a get, a set that is
\* accepted, and the two stream commands.
FollowUps ==
    {Msg(FALSE, JStr("get"), JStr("gain"), JAbsent),
     Msg(FALSE, JStr("set"), JStr("gain"), JFloat(5)),
     Msg(FALSE, JStr("start_stream"), JAbsent, JAbsent),
     Msg(FALSE, JStr("stop_stream"), JAbsent, JAbsent)}

\* C12: an error outcome of a command changes no variable, not the stream
\* state, no callback binding and no connection, invokes no callback, and
\* leaves the effects of the commands that may follow (their replies and
\* their state changes) as they were before the erroneous message.
C12_ErrorsAreRecovered ==
    [][ ErrorOutcome
        => /\ _variables' = _variables
           /\ _numVariables' = _numVariables
           /\ _isStreaming' = _isStreaming
           /\ _onStreamStartCallback' = _onStreamStartCallback
           /\ _onStreamStopCallback' = _onStreamStopCallback
           /\ clients' = clients
           /\ serverStarted' = serverStarted
           /\ called' = << >>
           /\ \A c \in Clients, m \in FollowUps :
                 HandleText(c, m)' = HandleText(c, m) ]_vars

\* A set of gain to 15.0 has been refused and gain still has its registered
\* value 1.0.
C12_Witness ==
    /\ IsCommand(lastEvent, "set")
    /\ lastEvent.msg.variable = JStr("gain")
    /\ lastEvent.msg.value = JFloat(30)
    /\ RepliedError(sent, lastEvent.client,
           "Failed to set value (invalid type or out of limits).")
    /\ Var(_variables, 1).floatValue = 2

\* C13: handling one complete text message from a client sends exactly one
\* reply, with the per-client send primitive, to that client: nothing goes
\* to another client or to all clients, whatever the command and its
\* outcome.
C13_ReplyToSenderOnly ==
    [][ (lastEvent'.type = "WS_EVT_DATA" /\ lastEvent'.frame = "text")
        => /\ Len(sent') = 1
           /\ sent'[1].api = "text"
           /\ sent'[1].to = lastEvent'.client ]_vars

\* With two clients connected, a set by client 2 has succeeded and been
\* answered to client 2 alone.
C13_Witness ==
    /\ IsCommand(lastEvent, "set")
    /\ lastEvent.client = 2
    /\ clients = {1, 2}
    /\ sent = << Send("text", 2, ValueDoc(Var(_variables, 1))) >>
    /\ Var(_variables, 1).floatValue = 5

----------------------------------------------------------------------------
(* Broadcaster *)

\* The step is a call of broadcastVariableUpdate or broadcastBinaryData.
IsBroadcast(e) ==
    e.type \in {"broadcastVariableUpdate", "broadcastBinaryData"}

\* The step leaves the registry, the stream state, the callbacks and the
\* connections alone and invokes no callback.
ProgramStateUnchanged ==
    /\ _variables' = _variables
    /\ _numVariables' = _numVariables
    /\ _isStreaming' = _isStreaming
    /\ _onStreamStartCallback' = _onStreamStartCallback
    /\ _onStreamStopCallback' = _onStreamStopCallback
    /\ clients' = clients
    /\ called' = << >>

\* C14: with zero clients connected, broadcastVariableUpdate (for any name)
\* and broadcastBinaryData (for any payload) invoke no send primitive and
\* change no registry or stream state.
C14_NoClientsNoSend ==
    [][ (IsBroadcast(lastEvent') /\ clients = {})
        => /\ sent' = << >>
           /\ ProgramStateUnchanged ]_vars

\* broadcastVariableUpdate("gain") has been called on an initialized
\* registry with the server running and no client connected.
C14_Witness ==
    /\ lastEvent.type = "broadcastVariableUpdate"
    /\ lastEvent.name = PtrTo("gain")
    /\ serverStarted
    /\ findVariableIndexInternal(lastEvent.name) = 1
    /\ clients = {}
    /\ sent = << >>

----------------------------------------------------------------------------
(* Registry invariant *)

\* The entry keeps the name, kind and limits of the registered entry r.
SameDeclaration(v, r) ==
    /\ v.name = r.name
    /\ v.type = r.type
    /\ v.hasLimits = r.hasLimits
    /\ v.minVal = r.minVal
    /\ v.maxVal = r.maxVal

\* The value of a numeric entry, in halves.
NumericValue(v) ==
    IF v.type = "TYPE_INT" THEN 2 * v.intValue ELSE v.floatValue

\* min <= value <= max
ValueWithinLimits(v) ==
    v.minVal <= NumericValue(v) /\ NumericValue(v) <= v.maxVal

\* C15: every variable keeps the name, kind and limits it was registered
\* with, and every numeric variable with limits whose registered value was
\* within them has a value v with min <= v <= max.
C15_RegistryInvariant ==
    _variables # NullPtr =>
       \A i \in 0 .. (Len(Deref(_variables)) - 1) :
          LET v == Var(_variables, i)
              r == AppVariables[i + 1]
          IN  /\ SameDeclaration(v, r)
              /\ (v.type \in {"TYPE_INT", "TYPE_FLOAT"} /\ r.hasLimits
                     /\ ValueWithinLimits(r))
                    => ValueWithinLimits(v)

\* Sets have moved count to 2, gain to 2.5 and freq to its upper limit.
C15_Witness ==
    /\ IsCommand(lastEvent, "set")
    /\ _variables # NullPtr
    /\ Var(_variables, 0).intValue = 2
    /\ Var(_variables, 1).floatValue = 5
    /\ Var(_variables, 2).floatValue = Var(_variables, 2).maxVal
    /\ Var(_variables, 2).floatValue # AppVariables[3].floatValue

----------------------------------------------------------------------------
(* Broadcaster, with clients *)

\* What broadcastVariableUpdate must send for the name in the event e.
ExpectedVariableBroadcast(e) ==
    LET index == findVariableIndexInternal(e.name) IN
    IF index >= 0
    THEN << Send("textAll", 0, ValueDoc(Var(_variables, index))) >>
    ELSE << >>

\* What broadcastBinaryData must send for the payload in the event e.
ExpectedBinaryBroadcast(e) ==
    IF e.name # NullPtr /\ e.len > 0
    THEN << Send("binaryAll", 0, Doc("binary", "", "", "", JInt(e.len), "")) >>
    ELSE << >>

\* C16: with at least one client connected, broadcastVariableUpdate(name)
\* performs exactly one send-to-all carrying {variable, value} with the
\* stored value when the name resolves and no send otherwise;
\* broadcastBinaryData performs exactly one send-to-all when the payload is
\* non-null and non-empty and no send otherwise. Neither sends to an
\* individual client or changes a variable or the stream state.
C16_BroadcastWithClients ==
    [][ (IsBroadcast(lastEvent') /\ clients # {})
        => /\ lastEvent'.type = "broadcastVariableUpdate"
                => sent' = ExpectedVariableBroadcast(lastEvent')
           /\ lastEvent'.type = "broadcastBinaryData"
                => sent' = ExpectedBinaryBroadcast(lastEvent')
           /\ \A k \in 1 .. Len(sent') :
                 sent'[k].api \in {"textAll", "binaryAll"}
           /\ ProgramStateUnchanged ]_vars

\* With a client connected, broadcastVariableUpdate("gain") has sent the
\* value 2.5 that an earlier set stored.
C16_Witness ==
    /\ lastEvent.type = "broadcastVariableUpdate"
    /\ lastEvent.name = PtrTo("gain")
    /\ clients # {}
    /\ Var(_variables, 1).floatValue = 5
    /\ sent = << Send("textAll", 0, ValueDoc(Var(_variables, 1))) >>

----------------------------------------------------------------------------
(* Text variables *)

\* The command e is a set whose variable resolves to a Text variable.
TextSet(e) ==
    /\ IsCommand(e, "set")
    /\ Target(e) >= 0
    /\ Var(_variables, Target(e)).type = "TYPE_STRING"

\* C17: for every Text variable, set succeeds if and only if the candidate
\* is text, whatever the variable's hasLimits, minVal and maxVal; a numeric
\* candidate is rejected with an error reply and the stored text unchanged.
C17_TextSet ==
    [][ TextSet(lastEvent')
        => LET i == Target(lastEvent')
               v == lastEvent'.msg.value
               c == lastEvent'.client
           IN  /\ v.tag = "str"
                    => /\ _variables'
                            = Store(_variables, i, "stringValue", v.s)
                       /\ sent' = << Send("text", c,
                                          ValueDoc(Var(_variables', i))) >>
               /\ v.tag # "str"
                    => /\ RepliedStatus(sent', c, "error")
                       /\ _variables' = _variables
               /\ IsNumeric(v)
                    => RepliedError(sent', c,
                         "Failed to set value (invalid type or out of limits).")
      ]_vars

\* The Text variable label, which has the flag hasLimits set and the limits
\* (0.0, 1.0), has been set to "on".
C17_Witness ==
    /\ TextSet(lastEvent)
    /\ Target(lastEvent) = 3
    /\ Var(_variables, 3).hasLimits
    /\ lastEvent.msg.value = JStr("on")
    /\ Var(_variables, 3).stringValue = "on"
    /\ RepliedValue(sent, lastEvent.client)

----------------------------------------------------------------------------
(* Frame conditions of the dispatcher *)

\* The member of an entry that holds its value.
ValueMember(type) ==
    CASE type = "TYPE_INT" -> "intValue"
      [] type = "TYPE_FLOAT" -> "floatValue"
      [] OTHER -> "stringValue"

\* The event e is one the dispatcher handles: a connect, a disconnect or a
\* data frame.
IsDispatched(e) ==
    e.type \in {"WS_EVT_CONNECT", "WS_EVT_DISCONNECT", "WS_EVT_DATA"}

\* The step changes at most the value member of entry i of the array.
ChangesAtMostValueOf(i) ==
    /\ _variables # NullPtr
    /\ _variables' # NullPtr
    /\ Len(Deref(_variables')) = Len(Deref(_variables))
    /\ i \in 0 .. (Len(Deref(_variables)) - 1)
    /\ \A j \in 0 .. (Len(Deref(_variables)) - 1) :
          \A member \in DOMAIN Var(_variables, j) :
             (j # i \/ member # ValueMember(Var(_variables, i).type))
                => Var(_variables', j)[member] = Var(_variables, j)[member]

CallbacksUnchanged ==
    /\ _onStreamStartCallback' = _onStreamStartCallback
    /\ _onStreamStopCallback' = _onStreamStopCallback

\* C18: get, start_stream, stop_stream, unknown actions, malformed messages
\* and connect/disconnect events leave every variable's value unchanged; a
\* set changes at most the value of the single variable its name resolves to
\* and never the stream state or the bound callbacks; start_stream and
\* stop_stream change only the stream state.
C18_FrameConditions ==
    [][ IsDispatched(lastEvent')
        => LET e == lastEvent' IN
           /\ _numVariables' = _numVariables
           /\ CallbacksUnchanged
           /\ ~IsCommand(e, "set") => _variables' = _variables
           /\ IsCommand(e, "set")
                => /\ _isStreaming' = _isStreaming
                   /\ called' = << >>
                   /\ clients' = clients
                   /\ \/ _variables' = _variables
                      \/ ChangesAtMostValueOf(Target(e))
           /\ (IsCommand(e, "start_stream") \/ IsCommand(e, "stop_stream"))
                => clients' = clients
           /\ _isStreaming' # _isStreaming
                => \/ IsCommand(e, "start_stream")
                   \/ IsCommand(e, "stop_stream")
                   \/ e.type = "WS_EVT_DISCONNECT" ]_vars

\* A set of gain to 2.5 has changed that entry, and only its floatValue,
\* while the stream is running.
C18_Witness ==
    /\ IsCommand(lastEvent, "set")
    /\ Target(lastEvent) = 1
    /\ _isStreaming
    /\ _variables = Store(PtrTo(AppVariables), 1, "floatValue", 5)
    /\ _variables # PtrTo(AppVariables)

----------------------------------------------------------------------------
(* Disconnects and the stream *)

\* C19: a disconnect after which at least one client remains connected
\* never invokes the stop callback and never changes the stream state; a
\* Streaming stream stays Streaming until a stop_stream command is processed
\* or the number of connected clients reaches zero.
C19_OtherClientsRemain ==
    [][ /\ (lastEvent'.type = "WS_EVT_DISCONNECT" /\ clients' # {})
           => /\ called' = << >>
              /\ sent' = << >>
              /\ _isStreaming' = _isStreaming
        /\ (_isStreaming /\ ~_isStreaming')
           => \/ IsCommand(lastEvent', "stop_stream")
              \/ (lastEvent'.type = "WS_EVT_DISCONNECT" /\ clients' = {})
      ]_vars

\* One of two clients has disconnected while the stream is Streaming and a
\* stop callback is bound; the stream is still Streaming.
C19_Witness ==
    /\ lastEvent.type = "WS_EVT_DISCONNECT"
    /\ Cardinality(clients) = 1
    /\ lastEvent.client \notin clients
    /\ _isStreaming
    /\ _onStreamStopCallback # NullPtr
    /\ called = << >>

\* C20 as stated: with zero clients connected the stream is Idle, whichever
\* callbacks are bound.
C20_Original == clients = {} => ~_isStreaming

\* C20: when the disconnect of the last client is handled, the stream
\* becomes Idle if a stop callback is bound; with no stop callback bound the
\* event is a no-op, so a Streaming stream stays Streaming with zero clients
\* connected.
C20_LastDisconnect ==
    [][ (lastEvent'.type = "WS_EVT_DISCONNECT" /\ clients' = {})
        => IF _onStreamStopCallback # NullPtr
           THEN ~_isStreaming'
           ELSE /\ _isStreaming' = _isStreaming
                /\ called' = << >> ]_vars

\* The last client has disconnected with a start callback bound and no stop
\* callback: the stream is Streaming with zero clients connected.
C20_Witness ==
    /\ lastEvent.type = "WS_EVT_DISCONNECT"
    /\ clients = {}
    /\ _onStreamStartCallback # NullPtr
    /\ _onStreamStopCallback = NullPtr
    /\ _isStreaming

----------------------------------------------------------------------------
(* Alternation of the callbacks *)

\* C21: over any interleaving of start_stream, stop_stream and disconnects,
\* the number of start callback invocations minus the number of stop
\* callback invocations is 1 when the stream is Streaming and 0 when it is
\* Idle, so the invocations alternate, beginning with a start.
C21_CallbacksAlternate ==
    unmatched = IF _isStreaming THEN 1 ELSE 0

\* With two clients connected, a start_stream command has invoked the start
\* callback: one start is unmatched and the stream is Streaming.
C21_Witness ==
    /\ IsCommand(lastEvent, "start_stream")
    /\ called = << "onStreamStart" >>
    /\ _isStreaming
    /\ unmatched = 1
    /\ Cardinality(clients) = 2

----------------------------------------------------------------------------
(* No per-client ownership of the stream *)

\* The command e is a start_stream or a stop_stream.
IsStreamCommand(e) ==
    IsCommand(e, "start_stream") \/ IsCommand(e, "stop_stream")

\* The callback a stream command needs, and the stream state in which it
\* acts.
NeededCallback(e) ==
    IF IsCommand(e, "start_stream") THEN _onStreamStartCallback
    ELSE _onStreamStopCallback

ActsWhen(e) == IF IsCommand(e, "start_stream") THEN FALSE ELSE TRUE

\* The status of the reply to the stream command e, from the stream state
\* and the bound callbacks alone.
StreamReplyStatus(e) ==
    IF NeededCallback(e) = NullPtr THEN "error"
    ELSE IF _isStreaming = ActsWhen(e) THEN "ok"
    ELSE "info"

\* C22: the reply to and the effect of a start_stream or stop_stream depend
\* only on the stream state and the bound callbacks, never on the sender or
\* on the client that issued earlier commands; a stream started by one
\* client is stopped by the stop_stream of another, and a start_stream from
\* another client while the stream is active yields "info" with no second
\* invocation of the start callback.
C22_NoOwnership ==
    [][ IsStreamCommand(lastEvent')
        => LET e == lastEvent'
               c == lastEvent'.client
               acts == StreamReplyStatus(e) = "ok"
           IN  /\ RepliedStatus(sent', c, StreamReplyStatus(e))
               /\ _isStreaming' = IF acts THEN ~_isStreaming ELSE _isStreaming
               /\ called' = IF acts THEN << Deref(NeededCallback(e)) >>
                            ELSE << >>
               /\ (IsCommand(e, "stop_stream") /\ _isStreaming
                      /\ startedBy # c /\ _onStreamStopCallback # NullPtr)
                    => /\ ~_isStreaming'
                       /\ called' = << Deref(_onStreamStopCallback) >>
                       /\ RepliedStatus(sent', c, "ok")
               /\ (IsCommand(e, "start_stream") /\ _isStreaming
                      /\ startedBy # c /\ _onStreamStartCallback # NullPtr)
                    => /\ _isStreaming'
                       /\ called' = << >>
                       /\ startedBy' = startedBy
                       /\ RepliedStatus(sent', c, "info") ]_vars

\* Client 2 has sent start_stream while the stream that client 1 started is
\* running: it is answered "info", no callback is invoked and the stream is
\* still the one client 1 started.
C22_Witness ==
    /\ IsCommand(lastEvent, "start_stream")
    /\ lastEvent.client = 2
    /\ startedBy = 1
    /\ _isStreaming
    /\ called = << >>
    /\ RepliedStatus(sent, 2, "info")

----------------------------------------------------------------------------
(* Initialization with an invalid registry *)

\* initWiFiWebSocketServer has been given a null array or a count <= 0.
InvalidRegistry ==
    initCalled /\ (_variables = NullPtr \/ _numVariables <= 0)

\* C23: after an initialization with a null array or a count <= 0 the event
\* handler is not registered and the server is not started: no command is
\* dispatched, no reply is sent, no stream callback is invoked, and
\* broadcastVariableUpdate sends nothing for any name.
C23_InvalidRegistry ==
    InvalidRegistry
       => /\ ~serverStarted
          /\ clients = {}
          /\ lastEvent.type \notin {"WS_EVT_CONNECT", "WS_EVT_DISCONNECT",
                                    "WS_EVT_DATA", "WS_EVT_PONG",
                                    "WS_EVT_ERROR"}
          /\ sent = << >>
          /\ called = << >>
          /\ unmatched = 0
          /\ ~_isStreaming

\* With both callbacks bound, broadcastVariableUpdate("gain") has been
\* called after an initialization with a count of 0.
C23_Witness ==
    /\ InvalidRegistry
    /\ _variables # NullPtr
    /\ _numVariables = 0
    /\ _onStreamStartCallback # NullPtr
    /\ _onStreamStopCallback # NullPtr
    /\ lastEvent.type = "broadcastVariableUpdate"
    /\ lastEvent.name = PtrTo("gain")
    /\ sent = << >>

----------------------------------------------------------------------------
(* Channel::Read *)

\* The step is a Read; its sample is lastEvent'.len.
IsRead(e) == e.type = "Channel::Read"

\* C24: Read is edge-triggered against the reference level. The UP stamp
\* flag is raised only by a Read that takes the signal state from low to
\* high (sample strictly above the reference level, UP mark enabled), the
\* DOWN stamp flag only by a Read that takes it from high to low (sample
\* strictly below the reference level, DOWN mark enabled); a sample equal to
\* the reference level changes nothing; no Read raises both flags; Read
\* never clears a stamp flag; with the UP mark disabled and the signal state
\* low, a Read raises neither flag and leaves the signal state low.
C24_EdgeTriggered ==
    [][ IsRead(lastEvent')
        => LET sample == lastEvent'.len
               raisesUP == ~_getStampUP /\ _getStampUP'
               raisesDOWN == ~_getStampDOWN /\ _getStampDOWN'
           IN  /\ raisesUP => /\ sample > _refLevel
                              /\ _up
                              /\ ~_signalState /\ _signalState'
               /\ raisesDOWN => /\ sample < _refLevel
                                /\ _down
                                /\ _signalState /\ ~_signalState'
               /\ (~_signalState /\ _signalState')
                     => (sample > _refLevel /\ _up /\ _getStampUP')
               /\ (_signalState /\ ~_signalState')
                     => (sample < _refLevel /\ _down /\ _getStampDOWN')
               /\ sample = _refLevel => channelVars' = channelVars
               /\ ~(raisesUP /\ raisesDOWN)
               /\ _getStampUP => _getStampUP'
               /\ _getStampDOWN => _getStampDOWN'
               /\ (~_up /\ ~_signalState)
                     => /\ _getStampUP' = _getStampUP
                        /\ _getStampDOWN' = _getStampDOWN
                        /\ ~_signalState'
                        /\ ~_up'
      ]_vars

\* A Read of a sample below the reference level has taken the signal state
\* from high to low: both stamp flags are raised.
C24_Witness ==
    /\ IsRead(lastEvent)
    /\ lastEvent.len < _refLevel
    /\ _refLevel = REF_LEVEL
    /\ ~_signalState
    /\ _getStampUP
    /\ _getStampDOWN
    /\ _up /\ _down

====
